---- MODULE Spec2Model ----
(***************************************************************************)
(* Model of os/hal/src/hal_mmcsd.c (ChibiOS HAL, MMC/SD common code): the  *)
(* bit-slice extractor, the two capacity decoders and the CID unpackers.   *)
(*                                                                         *)
(* A 32-bit value is held as the set of its set bit positions, so that     *)
(* 0xFFFFFFFF and 2^32 can be told apart (TLC integers stop at 2^31 - 1).   *)
(* Exact (unbounded) arithmetic works on the same sets with positions      *)
(* above 31; the C result is that set cut to positions 0..31.              *)
(***************************************************************************)
EXTENDS Integers, FiniteSets, Sequences, TLC

VARIABLES data, ext_csd, target, dbg_checks, ret, cidsdc, cidmmc

vars == <<data, ext_csd, target, dbg_checks, ret, cidsdc, cidmmc>>

(***************************************************************************)
(* Bounds of the model.                                                    *)
(***************************************************************************)
\* Words of the array handed to _mmcsd_get_slice in SpecSlice.
NumWords == 2
\* Bytes of EXT_CSD modelled on each side of bytes 212..215.
ExtPad == 1

(***************************************************************************)
(* 32-bit arithmetic on bit sets.                                          *)
(***************************************************************************)
\* Width of uint32_t (and of int on the 32-bit targets modelled).
WordBits == 32

WordPos == 0 .. (WordBits - 1)

\* Conversion to uint32_t: reduction modulo 2^32.
Trunc(S) == S \cap WordPos

\* The bit set of a small natural number (below 2^31).
FromNat(n) == { i \in 0 .. 30 : (n \div (2 ^ i)) % 2 = 1 }

RECURSIVE ToNat(_)
\* The number a bit set (positions below 31) stands for.
ToNat(S) ==
  IF S = {} THEN 0
  ELSE LET b == CHOOSE x \in S : TRUE
       IN  (2 ^ b) + ToNat(S \ {b})

\* x << k, exact.
ShlExact(S, k) == { b + k : b \in S }

\* x >> k for a count k in 0..31.
Shr(S, k) == { b - k : b \in { x \in S : x >= k } }

BitAnd(A, B) == A \cap B

BitOr(A, B) == A \cup B

RECURSIVE AddExact(_, _)
\* a + b, exact: sum bits plus carries, until no carry is left.
AddExact(A, B) ==
  IF A \cap B = {} THEN A \cup B
  ELSE AddExact((A \cup B) \ (A \cap B), ShlExact(A \cap B, 1))

\* a + b in 32-bit arithmetic.
Add32(A, B) == Trunc(AddExact(A, B))

\* a - b in 32-bit two's complement arithmetic: a + ~b + 1.
Sub32(A, B) == Trunc(AddExact(AddExact(A, WordPos \ B), {0}))

RECURSIVE MulExact(_, _)
\* a * b, exact: the sum of b << i over the set bits i of a.
MulExact(A, B) ==
  IF A = {} THEN {}
  ELSE LET i == CHOOSE x \in A : TRUE
       IN  AddExact(ShlExact(B, i), MulExact(A \ {i}, B))

Mul32(A, B) == Trunc(MulExact(A, B))

(***************************************************************************)
(* The build: the target's shifter and the debug option.                   *)
(*                                                                         *)
(* A 32-bit shift whose count is 32 or more is undefined in C; what a     *)
(* build does is what its shifter does.  "armv7m": LSL by register takes   *)
(* the count from the low byte and gives 0 for a count of 32 or more.      *)
(* "x86": SHL takes the count modulo 32.  For counts 0..31 both agree.     *)
(***************************************************************************)
Targets == {"armv7m", "x86"}

\* x << count on a 32-bit operand, count given as a 32-bit value.
Shl32(S, count, tgt) ==
  LET k == ToNat(count \cap (IF tgt = "armv7m" THEN 0 .. 7 ELSE 0 .. 4))
  IN  IF k >= WordBits THEN {} ELSE Trunc(ShlExact(S, k))

\* osalDbgCheck(c): halts the system when the check fails and debug checks
\* are compiled in; compiled out, it does nothing.
osalDbgCheckHalts(c, dbg) == dbg /\ ~c

(***************************************************************************)
(* _mmcsd_get_slice                                                        *)
(***************************************************************************)
\* A check that lets a 33-bit slice through: (end - start) <= 32.
SliceCheck_wide(end, start) == (end >= start) /\ ((end - start) <= 32)

\* The argument of osalDbgCheck: && evaluates end - start only when
\* end >= start, so the unsigned difference never wraps here.
SliceCheck(end, start) == (end >= start) /\ ((end - start) < 32)

\* An end mask one bit short: (1 << (end % 32)) - 1.
EndMask_short(end, tgt) == Sub32(Shl32({0}, FromNat(end % 32), tgt), {0})

\* endmask = (1 << ((end % 32) + 1)) - 1, computed in int and stored in a
\* uint32_t.  The count is 1..32: 32 when end is the top bit of its word.
EndMask(end, tgt) == Sub32(Shl32({0}, FromNat((end % 32) + 1), tgt), {0})

\* The value returned by the body of _mmcsd_get_slice.
_mmcsd_get_slice(d, end, start, tgt) ==
  LET startidx == start \div 32
      startoff == start % 32
      endidx   == end \div 32
      endmask  == EndMask(end, tgt)
  IN  IF startidx < endidx
      THEN BitOr(Shr(d[startidx], startoff),
                 Shl32(BitAnd(d[endidx], endmask), FromNat(32 - startoff), tgt))
      ELSE Shr(BitAnd(d[startidx], endmask), startoff)

\* The counts of the shifts one call of _mmcsd_get_slice performs.
SliceShifts(end, start) ==
  LET startidx == start \div 32
      startoff == start % 32
      endidx   == end \div 32
  IN  {FromNat((end % 32) + 1), FromNat(startoff)}
        \cup (IF startidx < endidx THEN {FromNat(32 - startoff)} ELSE {})

(***************************************************************************)
(* Inputs.                                                                 *)
(***************************************************************************)
\* Word values the arrays are drawn from: 0x00000000, 0x00000001 and
\* 0xA5C3F00F.
SliceWords ==
  { {}, {0},
    {0, 1, 2, 3, 12, 13, 14, 15, 16, 17, 22, 23, 24, 26, 29, 31} }

\* Bit offsets inside an array of NumWords words.
SliceOffsets == 0 .. ((32 * NumWords) - 1)

\* The (start, end) pairs tried: every valid slice of the array, and the
\* invalid ones next to them (end = start - 1, and end - start = 32).
SliceEnds(start) == { e \in SliceOffsets : (e >= start - 1) /\ (e <= start + 32) }

NoRet ==
  [fn |-> "none", end |-> 0, start |-> 0, outcome |-> "none",
   value |-> {}, endmask |-> {}, shifts |-> {}]

NoCid == [pnm |-> <<>>]

(***************************************************************************)
(* Specification of the extractor alone.                                   *)
(***************************************************************************)
InitBuild == target \in Targets /\ dbg_checks \in BOOLEAN

InitSlice ==
  /\ InitBuild
  /\ data \in [0 .. (NumWords - 1) -> SliceWords]
  /\ ext_csd = <<>>
  /\ ret = NoRet
  /\ cidsdc = NoCid
  /\ cidmmc = NoCid

\* One call _mmcsd_get_slice(data, end, start).  The functions are pure: a
\* call reads nothing an earlier call wrote, so each behaviour makes one
\* call on the snapshot drawn by the initial state.
Call_get_slice ==
  \E start \in SliceOffsets : \E end \in SliceEnds(start) :
    /\ ret.fn = "none"
    /\ ret' =
         IF osalDbgCheckHalts(SliceCheck(end, start), dbg_checks)
         THEN [NoRet EXCEPT !.fn = "get_slice", !.end = end, !.start = start,
                            !.outcome = "halted"]
         ELSE [fn |-> "get_slice", end |-> end, start |-> start,
               outcome |-> "returned",
               value |-> _mmcsd_get_slice(data, end, start, target),
               endmask |-> EndMask(end, target),
               shifts |-> SliceShifts(end, start)]
    /\ UNCHANGED <<data, ext_csd, target, dbg_checks, cidsdc, cidmmc>>

NextSlice == Call_get_slice

SpecSlice == InitSlice /\ [][NextSlice]_vars

(***************************************************************************)
(* What a slice means: bit n of an array is bit n % 32 of word n / 32.     *)
(***************************************************************************)
ArrayBit(d, n) == (n % 32) \in d[n \div 32]

\* The field start..end, right-aligned.
Field(d, end, start) == { i \in 0 .. (end - start) : ArrayBit(d, start + i) }

ValidSlice(end, start) == end >= start /\ end - start < 32

SliceReturned == ret.fn = "get_slice" /\ ret.outcome = "returned"

\* C1: for every array and every slice with end >= start and end - start < 32
\* the call returns the right-aligned field: result bit i is array bit
\* start + i for 0 <= i <= end - start, and every higher result bit is 0.
C1_SliceIsField ==
  (SliceReturned /\ ValidSlice(ret.end, ret.start))
    => ret.value = Field(data, ret.end, ret.start)

\* C1 holds on a target whose shifter gives 0 for a count of 32.
C1_OnArm ==
  (SliceReturned /\ ValidSlice(ret.end, ret.start) /\ target = "armv7m")
    => ret.value = Field(data, ret.end, ret.start)

\* C1 holds on every target when the slice does not end on a word's top bit.
C1_NotTopBit ==
  (SliceReturned /\ ValidSlice(ret.end, ret.start) /\ ret.end % 32 # 31)
    => ret.value = Field(data, ret.end, ret.start)

\* C2 as stated: with the buffer [0x00000001, 0x00000000] the slice
\* (start=0, end=0) returns 1 and the slice (start=31, end=32) returns 1.
C2_AsStated ==
  (SliceReturned /\ data[0] = {0} /\ data[1] = {})
    => /\ (ret.start = 0 /\ ret.end = 0) => ret.value = {0}
       /\ (ret.start = 31 /\ ret.end = 32) => ret.value = {0}

\* C2 amended: with the buffer [0x00000001, 0x00000000] the slice
\* (start=0, end=0) returns 1 and the slice (start=31, end=32) returns 0:
\* bit 31 of word 0 and bit 0 of word 1 are both clear.
C2_Amended ==
  (SliceReturned /\ data[0] = {0} /\ data[1] = {})
    => /\ (ret.start = 0 /\ ret.end = 0) => ret.value = {0}
       /\ (ret.start = 31 /\ ret.end = 32) => ret.value = {}

C2_Witness ==
  /\ SliceReturned /\ data[0] = {0} /\ data[1] = {}
  /\ ret.start = 31 /\ ret.end = 32 /\ ret.value = {}

\* C7 as stated: a call whose slice violates the precondition (end < start,
\* or end - start >= 32) always ends in an explicit failure, never in a
\* returned number.
C7_AsStated ==
  (ret.fn = "get_slice" /\ ~ValidSlice(ret.end, ret.start))
    => ret.outcome = "halted"

\* C7 amended: in a build with debug checks compiled in, a call whose slice
\* violates the precondition halts and returns nothing; in a build with the
\* checks compiled out the same call returns a number.
C7_Amended ==
  (ret.fn = "get_slice" /\ ~ValidSlice(ret.end, ret.start))
    => ret.outcome = (IF dbg_checks THEN "halted" ELSE "returned")

C7_Witness ==
  /\ ret.fn = "get_slice" /\ ret.end - ret.start = 32
  /\ dbg_checks /\ ret.outcome = "halted"

\* A shift count below the width of the 32-bit operand.
CountInRange(c) == c \subseteq 0 .. 4

\* C9: for every valid slice the end mask selects exactly bits 0..(end % 32)
\* of the end word (0xFFFFFFFF when end % 32 = 31), and every shift the call
\* performs has a count in 0..31.
C9_MaskAndCounts ==
  (SliceReturned /\ ValidSlice(ret.end, ret.start))
    => /\ ret.endmask = 0 .. (ret.end % 32)
       /\ \A c \in ret.shifts : CountInRange(c)

\* C9, the part that holds: when the slice does not end on the top bit of a
\* word the mask is exact and every count is in 0..31.
C9_NotTopBit ==
  (SliceReturned /\ ValidSlice(ret.end, ret.start) /\ ret.end % 32 # 31)
    => /\ ret.endmask = 0 .. (ret.end % 32)
       /\ \A c \in ret.shifts : CountInRange(c)

(***************************************************************************)
(* _mmcsd_get_capacity                                                     *)
(***************************************************************************)
\* The slices of hal_mmcsd.h the decoder uses, as <<end, start>>.
MMCSD_CSD_10_CSD_STRUCTURE_SLICE == <<127, 126>>

MMCSD_CSD_10_C_SIZE_SLICE == <<73, 62>>

MMCSD_CSD_10_C_SIZE_MULT_SLICE == <<49, 47>>

MMCSD_CSD_10_READ_BL_LEN_SLICE == <<83, 80>>

MMCSD_CSD_20_C_SIZE_SLICE == <<69, 48>>

\* _mmcsd_get_slice(csd, SLICE): the slices above pass the debug check.
GetSlice(d, slice, tgt) == _mmcsd_get_slice(d, slice[1], slice[2], tgt)

\* case 1: 1024 * (c_size + 1), in uint32_t.
Capacity20(csd, tgt) ==
  Mul32(FromNat(1024),
        Add32(GetSlice(csd, MMCSD_CSD_20_C_SIZE_SLICE, tgt), {0}))

\* The two shift counts of case 0: b + 2 and c - 9, both uint32_t.
Capacity10Counts(csd, tgt) ==
  LET b == GetSlice(csd, MMCSD_CSD_10_C_SIZE_MULT_SLICE, tgt)
      c == GetSlice(csd, MMCSD_CSD_10_READ_BL_LEN_SLICE, tgt)
  IN  <<Add32(b, FromNat(2)), Sub32(c, FromNat(9))>>

\* case 0: (a + 1) << (b + 2) << (c - 9), shifted left to right.
Capacity10(csd, tgt) ==
  LET a == GetSlice(csd, MMCSD_CSD_10_C_SIZE_SLICE, tgt)
      n == Capacity10Counts(csd, tgt)
  IN  Shl32(Shl32(Add32(a, {0}), n[1], tgt), n[2], tgt)

_mmcsd_get_capacity(csd, tgt) ==
  LET structure == GetSlice(csd, MMCSD_CSD_10_CSD_STRUCTURE_SLICE, tgt)
  IN  CASE structure = {}  -> Capacity10(csd, tgt)
        [] structure = {0} -> Capacity20(csd, tgt)
        [] OTHER           -> {}

\* The counts of the shifts of the capacity formula itself (case 0 only).
CapacityShifts(csd, tgt) ==
  IF GetSlice(csd, MMCSD_CSD_10_CSD_STRUCTURE_SLICE, tgt) = {}
  THEN {Capacity10Counts(csd, tgt)[1], Capacity10Counts(csd, tgt)[2]}
  ELSE {}

\* CSD words the registers are drawn from, per word of the register.
\* Word 0 (bits 31..0) holds no field of the capacity formulas.
CsdWord0 == { {}, WordPos }

\* Word 1 (bits 63..32): c_size_mult at 17..15, the low bits of the CSD 1.0
\* c_size at 31..30, the low bits of the CSD 2.0 c_size at 31..16.
CsdWord1 == { {}, WordPos, {15, 31}, 16 .. 31 }

\* Word 2 (bits 95..64): read_bl_len at 19..16, the high bits of the CSD 1.0
\* c_size at 9..0, the high bits of the CSD 2.0 c_size at 5..0.
CsdWord2 ==
  { {}, {19}, {16, 19}, {0, 17, 19}, (0 .. 9) \cup (16 .. 19), 0 .. 5, WordPos }

\* Word 3 (bits 127..96): the CSD structure at 31..30.
CsdWord3 == { {}, {30}, {31}, {30, 31}, 0 .. 29, 0 .. 30 }

CsdRegisters ==
  { (0 :> w0 @@ 1 :> w1 @@ 2 :> w2 @@ 3 :> w3) :
      w0 \in CsdWord0, w1 \in CsdWord1, w2 \in CsdWord2, w3 \in CsdWord3 }

InitCsd ==
  /\ InitBuild
  /\ data \in CsdRegisters
  /\ ext_csd = <<>>
  /\ ret = NoRet
  /\ cidsdc = NoCid
  /\ cidmmc = NoCid

\* One call _mmcsd_get_capacity(data); the pointer is never NULL.
Call_get_capacity ==
  /\ ret.fn = "none"
  /\ ret' = [NoRet EXCEPT !.fn = "get_capacity", !.outcome = "returned",
                          !.value = _mmcsd_get_capacity(data, target),
                          !.shifts = CapacityShifts(data, target)]
  /\ UNCHANGED <<data, ext_csd, target, dbg_checks, cidsdc, cidmmc>>

NextCsd == Call_get_capacity

SpecCsd == InitCsd /\ [][NextCsd]_vars

\* The fields of a CSD register, read off its bits.
CsdStructure == Field(data, 127, 126)

CSize10 == Field(data, 73, 62)

CSizeMult == ToNat(Field(data, 49, 47))

ReadBlLen == ToNat(Field(data, 83, 80))

CSize20 == Field(data, 69, 48)

CapacityReturned == ret.fn = "get_capacity" /\ ret.outcome = "returned"

\* C3: the capacity is 0 exactly when the CSD structure field (bits
\* 127..126) is 2 or 3; for structure 0 or 1 it is nonzero whatever the
\* other fields hold.
C3_ZeroIffReserved ==
  CapacityReturned => ((ret.value = {}) <=> (CsdStructure \in {{1}, {0, 1}}))

\* C4: for CSD structure 0 the result is the number of 512-byte blocks:
\* result * 512 = (c_size + 1) * 2^(c_size_mult + 2) * 2^read_bl_len, with
\* no 32-bit wrap-around, for every value of the three fields.
C4_Csd10Blocks ==
  (CapacityReturned /\ CsdStructure = {})
    => ShlExact(ret.value, 9)
         = ShlExact(AddExact(CSize10, {0}), CSizeMult + 2 + ReadBlLen)

\* C4 holds for read_bl_len of 9 or more.
C4_BlLenAtLeast9 ==
  (CapacityReturned /\ CsdStructure = {} /\ ReadBlLen >= 9)
    => ShlExact(ret.value, 9)
         = ShlExact(AddExact(CSize10, {0}), CSizeMult + 2 + ReadBlLen)

\* C5: for CSD structure 1 the result is the integer 1024 * (c_size + 1),
\* c_size the 22-bit field at 69..48, for every value of that field.
C5_Csd20Blocks ==
  (CapacityReturned /\ CsdStructure = {0})
    => ret.value = MulExact(FromNat(1024), AddExact(CSize20, {0}))

\* C5 holds where the structure field is extracted as it is (the shifter
\* gives 0 for a count of 32) and c_size is below 2^22 - 1.
C5_OnArmBelowMax ==
  (CapacityReturned /\ CsdStructure = {0} /\ target = "armv7m"
     /\ CSize20 # 0 .. 21)
    => ret.value = MulExact(FromNat(1024), AddExact(CSize20, {0}))

\* C10: for CSD structure 0 each shift of (a + 1) << (b + 2) << (c - 9) has
\* a count in 0..31; c - 9 does not underflow for read_bl_len below 9.
C10_CountsInRange ==
  (CapacityReturned /\ CsdStructure = {})
    => \A c \in ret.shifts : CountInRange(c)

\* C10 holds for read_bl_len of 9 or more.
C10_BlLenAtLeast9 ==
  (CapacityReturned /\ CsdStructure = {} /\ ReadBlLen >= 9)
    => \A c \in ret.shifts : CountInRange(c)

(***************************************************************************)
(* _mmcsd_get_capacity_ext                                                 *)
(***************************************************************************)
\* The two middle bytes exchanged: ext_csd[214] << 8 and ext_csd[213] << 16.
_mmcsd_get_capacity_ext_swapped(ext, tgt) ==
  Add32(Add32(Add32(Shl32(FromNat(ext[215]), FromNat(24), tgt),
                    Shl32(FromNat(ext[214]), FromNat(8), tgt)),
              Shl32(FromNat(ext[213]), FromNat(16), tgt)),
        FromNat(ext[212]))

\* (ext_csd[215] << 24) + (ext_csd[214] << 16) + (ext_csd[213] << 8) +
\* ext_csd[212].  Each uint8_t is promoted to int; the shifts and sums are
\* done in int and the sum is converted to uint32_t.  A byte of 0x80 or more
\* shifted by 24 reaches the sign bit: the 32-bit targets modelled keep the
\* two's complement bit pattern, which the conversion leaves as it is.
_mmcsd_get_capacity_ext(ext, tgt) ==
  Add32(Add32(Add32(Shl32(FromNat(ext[215]), FromNat(24), tgt),
                    Shl32(FromNat(ext[214]), FromNat(16), tgt)),
              Shl32(FromNat(ext[213]), FromNat(8), tgt)),
        FromNat(ext[212]))

\* Values of the bytes 212..215, and of the bytes around them.
ByteValues == {0, 1, 128, 255}

PadValues == {0, 255}

SecCount == 212 .. 215

ExtWindow == (212 - ExtPad) .. (215 + ExtPad)

ExtBuffers ==
  { e \in [ExtWindow -> ByteValues \cup PadValues] :
      /\ \A i \in SecCount : e[i] \in ByteValues
      /\ \A i \in ExtWindow \ SecCount : e[i] \in PadValues }

InitExt ==
  /\ InitBuild
  /\ data = <<>>
  /\ ext_csd \in ExtBuffers
  /\ ret = NoRet
  /\ cidsdc = NoCid
  /\ cidmmc = NoCid

\* One call _mmcsd_get_capacity_ext(ext_csd); the pointer is never NULL.
Call_get_capacity_ext ==
  /\ ret.fn = "none"
  /\ ret' = [NoRet EXCEPT !.fn = "get_capacity_ext", !.outcome = "returned",
                          !.value = _mmcsd_get_capacity_ext(ext_csd, target)]
  /\ UNCHANGED <<data, ext_csd, target, dbg_checks, cidsdc, cidmmc>>

NextExt == Call_get_capacity_ext

SpecExt == InitExt /\ [][NextExt]_vars

\* The little-endian value of bytes 212..215: bit j of byte 212 + k is bit
\* 8k + j of the value.
LittleEndian(ext) ==
  { n \in 0 .. 31 : (ext[212 + (n \div 8)] \div (2 ^ (n % 8))) % 2 = 1 }

ExtReturned == ret.fn = "get_capacity_ext" /\ ret.outcome = "returned"

\* C6: the result is the little-endian 32-bit value of bytes 212..215, for
\* all byte values including bytes[215] >= 0x80, whatever the other bytes
\* hold; bytes 0x01, 0x00, 0x00, 0x00 give 1.
C6_LittleEndian ==
  ExtReturned
    => /\ ret.value = LittleEndian(ext_csd)
       /\ (ext_csd[212] = 1 /\ ext_csd[213] = 0 /\ ext_csd[214] = 0
             /\ ext_csd[215] = 0) => ret.value = {0}

C6_Witness ==
  /\ ExtReturned
  /\ ext_csd[215] = 128 /\ ext_csd[214] = 1 /\ ext_csd[213] = 255
  /\ ext_csd[212] = 0 /\ ext_csd[211] = 255
  /\ ret.value = {31, 16} \cup (8 .. 15)

(***************************************************************************)
(* _mmcsd_unpack_sdc_cid and _mmcsd_unpack_mmc_cid                         *)
(***************************************************************************)
\* The CID slices of hal_mmcsd.h, as <<end, start>>.
MMCSD_CID_SDC_CRC_SLICE == <<7, 1>>

MMCSD_CID_SDC_MDT_M_SLICE == <<11, 8>>

MMCSD_CID_SDC_MDT_Y_SLICE == <<19, 12>>

MMCSD_CID_SDC_PSN_SLICE == <<55, 24>>

MMCSD_CID_SDC_PRV_M_SLICE == <<59, 56>>

MMCSD_CID_SDC_PRV_N_SLICE == <<63, 60>>

\* MMCSD_CID_SDC_PNM0_SLICE .. MMCSD_CID_SDC_PNM4_SLICE: 71,64 .. 103,96.
MMCSD_CID_SDC_PNM_SLICE(j) == <<71 + (8 * j), 64 + (8 * j)>>

MMCSD_CID_SDC_OID_SLICE == <<119, 104>>

MMCSD_CID_SDC_MID_SLICE == <<127, 120>>

MMCSD_CID_MMC_CRC_SLICE == <<7, 1>>

MMCSD_CID_MMC_MDT_Y_SLICE == <<11, 8>>

MMCSD_CID_MMC_MDT_M_SLICE == <<15, 12>>

MMCSD_CID_MMC_PSN_SLICE == <<47, 16>>

MMCSD_CID_MMC_PRV_M_SLICE == <<51, 48>>

MMCSD_CID_MMC_PRV_N_SLICE == <<55, 52>>

\* MMCSD_CID_MMC_PNM0_SLICE .. MMCSD_CID_MMC_PNM5_SLICE: 63,56 .. 103,96.
MMCSD_CID_MMC_PNM_SLICE(j) == <<63 + (8 * j), 56 + (8 * j)>>

MMCSD_CID_MMC_OID_SLICE == <<119, 104>>

MMCSD_CID_MMC_MID_SLICE == <<127, 120>>

\* Storing a uint32_t in a char or uint8_t field, and in a uint16_t field.
ToU8(S) == S \cap (0 .. 7)

ToU16(S) == S \cap (0 .. 15)

\* The PNM slice whose byte the SD unpacker stores in pnm[k]:
\* pnm[4] = PNM0, pnm[3] = PNM1, pnm[2] = PNM2, pnm[1] = PNM3, pnm[0] = PNM4.
SdcPnmSlice(k) ==
  CASE k = 4 -> 0 [] k = 3 -> 1 [] k = 2 -> 2 [] k = 1 -> 3 [] k = 0 -> 4

\* The PNM slice whose byte the MMC unpacker stores in pnm[k]:
\* pnm[5] = PNM0, pnm[4] = PNM1, ..., pnm[0] = PNM5.
MmcPnmSlice(k) ==
  CASE k = 5 -> 0 [] k = 4 -> 1 [] k = 3 -> 2 [] k = 2 -> 3 [] k = 1 -> 4
    [] k = 0 -> 5

_mmcsd_unpack_sdc_cid(cid, tgt) ==
  [crc   |-> ToU8(GetSlice(cid, MMCSD_CID_SDC_CRC_SLICE, tgt)),
   mdt_y |-> ToU16(Add32(GetSlice(cid, MMCSD_CID_SDC_MDT_Y_SLICE, tgt),
                         FromNat(2000))),
   mdt_m |-> ToU8(GetSlice(cid, MMCSD_CID_SDC_MDT_M_SLICE, tgt)),
   mid   |-> ToU8(GetSlice(cid, MMCSD_CID_SDC_MID_SLICE, tgt)),
   oid   |-> ToU16(GetSlice(cid, MMCSD_CID_SDC_OID_SLICE, tgt)),
   pnm   |-> [k \in 0 .. 4 |->
                ToU8(GetSlice(cid, MMCSD_CID_SDC_PNM_SLICE(SdcPnmSlice(k)),
                              tgt))],
   prv_n |-> ToU8(GetSlice(cid, MMCSD_CID_SDC_PRV_N_SLICE, tgt)),
   prv_m |-> ToU8(GetSlice(cid, MMCSD_CID_SDC_PRV_M_SLICE, tgt)),
   psn   |-> GetSlice(cid, MMCSD_CID_SDC_PSN_SLICE, tgt)]

_mmcsd_unpack_mmc_cid(cid, tgt) ==
  [crc   |-> ToU8(GetSlice(cid, MMCSD_CID_MMC_CRC_SLICE, tgt)),
   mdt_y |-> ToU16(Add32(GetSlice(cid, MMCSD_CID_MMC_MDT_Y_SLICE, tgt),
                         FromNat(1997))),
   mdt_m |-> ToU8(GetSlice(cid, MMCSD_CID_MMC_MDT_M_SLICE, tgt)),
   mid   |-> ToU8(GetSlice(cid, MMCSD_CID_MMC_MID_SLICE, tgt)),
   oid   |-> ToU16(GetSlice(cid, MMCSD_CID_MMC_OID_SLICE, tgt)),
   pnm   |-> [k \in 0 .. 5 |->
                ToU8(GetSlice(cid, MMCSD_CID_MMC_PNM_SLICE(MmcPnmSlice(k)),
                              tgt))],
   prv_n |-> ToU8(GetSlice(cid, MMCSD_CID_MMC_PRV_N_SLICE, tgt)),
   prv_m |-> ToU8(GetSlice(cid, MMCSD_CID_MMC_PRV_M_SLICE, tgt)),
   psn   |-> GetSlice(cid, MMCSD_CID_MMC_PSN_SLICE, tgt)]

\* A word from its four bytes, lowest first.
Bytes4(b0, b1, b2, b3) ==
  FromNat(b0) \cup ShlExact(FromNat(b1), 8) \cup ShlExact(FromNat(b2), 16)
    \cup ShlExact(FromNat(b3), 24)

\* CID words: 0x00000000, "ABCD" and four bytes with the top bit set.
CidWords == { {}, Bytes4(65, 66, 67, 68), Bytes4(129, 146, 163, 180) }

InitCid ==
  /\ InitBuild
  /\ data \in [0 .. 3 -> CidWords]
  /\ ext_csd = <<>>
  /\ ret = NoRet
  /\ cidsdc = NoCid
  /\ cidmmc = NoCid

\* One call _mmcsd_unpack_sdc_cid(sdcp, &cidsdc), sdcp->cid being data.
Call_unpack_sdc_cid ==
  /\ ret.fn = "none"
  /\ cidsdc' = _mmcsd_unpack_sdc_cid(data, target)
  /\ ret' = [NoRet EXCEPT !.fn = "unpack_sdc_cid", !.outcome = "returned"]
  /\ UNCHANGED <<data, ext_csd, target, dbg_checks, cidmmc>>

\* One call _mmcsd_unpack_mmc_cid(sdcp, &cidmmc), sdcp->cid being data.
Call_unpack_mmc_cid ==
  /\ ret.fn = "none"
  /\ cidmmc' = _mmcsd_unpack_mmc_cid(data, target)
  /\ ret' = [NoRet EXCEPT !.fn = "unpack_mmc_cid", !.outcome = "returned"]
  /\ UNCHANGED <<data, ext_csd, target, dbg_checks, cidsdc>>

NextCid == Call_unpack_sdc_cid \/ Call_unpack_mmc_cid

SpecCid == InitCid /\ [][NextCid]_vars

\* The byte of the register at a slice's offsets.
SliceBits(slice) == Field(data, slice[1], slice[2])

\* C8: after the SD unpacker pnm[k] is the byte at the offsets of slice
\* PNM(4 - k), k = 0..4; after the MMC unpacker pnm[k] is the byte at the
\* offsets of slice PNM(5 - k), k = 0..5; no two positions read one slice.
C8_PnmDescending ==
  /\ ret.fn = "unpack_sdc_cid" =>
       \A k \in 0 .. 4 :
         /\ SdcPnmSlice(k) = 4 - k
         /\ cidsdc.pnm[k] = SliceBits(MMCSD_CID_SDC_PNM_SLICE(4 - k))
  /\ ret.fn = "unpack_mmc_cid" =>
       \A k \in 0 .. 5 :
         /\ MmcPnmSlice(k) = 5 - k
         /\ cidmmc.pnm[k] = SliceBits(MMCSD_CID_MMC_PNM_SLICE(5 - k))

\* C8 holds on a target whose shifter gives 0 for a count of 32.
C8_OnArm ==
  target = "armv7m" => C8_PnmDescending

====
